---- MODULE Spec2Model ----
(***************************************************************************)
(* Model of my_calculator_app.py: validate_inputs and                      *)
(* solve_product_distribution (constraint checks, initial allocation,      *)
(* price balancing loop).                                                  *)
(*                                                                         *)
(* Conventions.                                                            *)
(*  - Categories are numbered 1..total_products, as the UI numbers them    *)
(*    (c['idx']); Python index k-1 is category k here, quantities[-1] is   *)
(*    quantities[total_products].                                          *)
(*  - tax_rate is held in percent (13 stands for 0.13), prices and the     *)
(*    total are integers.  The implied price                               *)
(*      calculated_x = (total/(1+tax) - known_items_price) / quantities[-1]*)
(*    is kept as the exact fraction XNum(q) / XDen(q); the comparisons of  *)
(*    the code are cross-multiplied.  round(.., 4) of the reported price   *)
(*    is not modelled: the result carries the exact fraction.              *)
(*  - Status strings: "success" = '成功', "warning" = '警告',              *)
(*    "error" = '错误'; "fault" is an uncaught ZeroDivisionError.          *)
(***************************************************************************)
EXTENDS Integers, Sequences, FiniteSets, TLC

\* Bounds of the explored request space.
MaxProducts == 3
MaxQuantity == 4
MaxConstraints == 2
MaxPrice == 2

\* for i in range(200)
MaxIterations == 200

VARIABLES
    total_products,        \* solver parameter (len(known_prices) + 1)
    total_quantity,
    total_price_with_tax,
    tax_rate,              \* percent
    known_prices,          \* sequence of total_products - 1 prices
    x_price_range,         \* <<low, high>>
    constraints,           \* sequence of [idx, type, value]
    pc,                    \* position in the program
    rules,                 \* dict built at line 69, keyed by category
    quantities,            \* the allocation vector
    iter,                  \* loop variable i of the balancing loop
    result,                \* the returned dict
    visited                \* history: known_items_price at each evaluation

vars == <<total_products, total_quantity, total_price_with_tax, tax_rate,
          known_prices, x_price_range, constraints, pc, rules, quantities,
          iter, result, visited>>

inputs == <<total_products, total_quantity, total_price_with_tax, tax_rate,
            known_prices, x_price_range, constraints>>

Types == {"<=", ">=", "=="}

RECURSIVE SumTo(_, _)
SumTo(f, k) == IF k = 0 THEN 0 ELSE f[k] + SumTo(f, k - 1)

\* sum(list)
Sum(f) == SumTo(f, Len(f))

\* A function on 1..n as a Python list (a sequence).
List(f) == f \o <<>>

SetMax(S) == CHOOSE m \in S : \A y \in S : y <= m
SetMin(S) == CHOOSE m \in S : \A y \in S : m <= y

Last == total_products

----------------------------------------------------------------------------
(* validate_inputs *)

num_known_products == Len(known_prices)

\* TRUE iff validate_inputs returns a non-empty list of errors.
validation_errors ==
    \/ total_quantity <= 0
    \/ total_price_with_tax <= 0
    \/ tax_rate <= 0
    \/ tax_rate >= 100
    \/ Len(known_prices) = 0
    \/ \E k \in DOMAIN known_prices : known_prices[k] < 0
    \/ total_quantity < num_known_products + 1
    \/ \E j \in DOMAIN constraints :
          \/ constraints[j].idx > num_known_products
          \/ constraints[j].idx < 1
          \/ constraints[j].value < 0

----------------------------------------------------------------------------
(* solve_product_distribution: rules and the two consistency checks *)

\* Dict comprehension: the last constraint given for an index wins.
RulesOf(cs) ==
    [k \in {cs[j].idx : j \in DOMAIN cs} |->
        LET last == SetMax({j \in DOMAIN cs : cs[j].idx = k})
        IN  [type |-> cs[last].type, value |-> cs[last].value]]

\* min_val after the scan of lines 82-85
min_val(rls, cs, k) ==
    SetMax((IF rls[k].type \in {">=", "=="} THEN {rls[k].value} ELSE {0})
           \cup {cs[j].value : j \in {h \in DOMAIN cs :
                                 cs[h].idx = k /\ cs[h].type = ">="}})

\* The finite candidates for max_val (float('inf') when there is none).
max_vals(rls, cs, k) ==
    (IF rls[k].type \in {"<=", "=="} THEN {rls[k].value} ELSE {})
    \cup {cs[j].value : j \in {h \in DOMAIN cs :
                           cs[h].idx = k /\ cs[h].type = "<="}}

\* min_val > max_val for some category of rules
HasConflict(rls, cs) ==
    \E k \in DOMAIN rls :
        /\ max_vals(rls, cs, k) # {}
        /\ min_val(rls, cs, k) > SetMin(max_vals(rls, cs, k))

RECURSIVE SumOver(_, _)
SumOver(f, S) ==
    IF S = {} THEN 0
    ELSE LET k == CHOOSE x \in S : TRUE IN f[k] + SumOver(f, S \ {k})

min_sum(rls) ==
    SumOver([k \in DOMAIN rls |-> rls[k].value],
            {k \in DOMAIN rls : rls[k].type \in {">=", "=="}})

----------------------------------------------------------------------------
(* solve_product_distribution: initial allocation *)

base_quantity == total_quantity \div total_products
remainder == total_quantity % total_products

Baseline_RemainderLast ==
    [k \in 1..total_products |->
        IF k > total_products - remainder THEN base_quantity + 1 ELSE base_quantity]

\* Line 101
Baseline ==
    List([k \in 1..total_products |->
            IF k <= remainder THEN base_quantity + 1 ELSE base_quantity])

\* Lines 105-108
Clamp(q) ==
    List([k \in 1..total_products |->
            IF k \notin DOMAIN rules THEN q[k]
            ELSE IF rules[k].type = "==" THEN rules[k].value
            ELSE IF rules[k].type = ">=" /\ q[k] < rules[k].value THEN rules[k].value
            ELSE IF rules[k].type = "<=" /\ q[k] > rules[k].value THEN rules[k].value
            ELSE q[k]])

\* Line 110, as a set; the list is in ascending index order.
unlocked ==
    {k \in 1..total_products : k \notin DOMAIN rules \/ rules[k].type # "=="}

\* Position of k in the unlocked list (1-based).
UnlockedRank(k) == Cardinality({j \in unlocked : j <= k})

\* Lines 109-115
Distribute(q) ==
    LET delta == total_quantity - Sum(q)
        n == Cardinality(unlocked)
    IN  IF unlocked = {} THEN q
        ELSE LET add_each == delta \div n
                 remainder_add == delta % n
             IN  List([k \in 1..total_products |->
                        IF k \notin unlocked THEN q[k]
                        ELSE q[k] + add_each
                             + (IF UnlockedRank(k) <= remainder_add THEN 1 ELSE 0)])

RelaxRound(q) == Distribute(Clamp(q))

\* for _ in range(total_products * 2)
RECURSIVE Relax(_, _)
Relax(q, rounds) == IF rounds = 0 THEN q ELSE Relax(RelaxRound(q), rounds - 1)

\* Lines 117-118
FixResidual(q) ==
    IF Sum(q) # total_quantity
    THEN [q EXCEPT ![1] = q[1] + (total_quantity - Sum(q))]
    ELSE q

\* Line 122
UnknownIsZero_Never(q) == FALSE
UnknownIsZero(q) == q[Last] = 0

\* Lines 96-118
InitialQuantities ==
    FixResidual(IF Len(constraints) > 0
                THEN Relax(Baseline, total_products * 2)
                ELSE Baseline)

----------------------------------------------------------------------------
(* solve_product_distribution: price balancing *)

known_items_price(q) ==
    SumTo([j \in 1..(total_products - 1) |-> q[j] * known_prices[j]],
          total_products - 1)

\* calculated_x = XNum(q) / XDen(q)
XNum(q) == total_price_with_tax * 100 - known_items_price(q) * (100 + tax_rate)
XDen(q) == q[Last] * (100 + tax_rate)

\* calculated_x > b, calculated_x < b   (XDen(q) # 0)
XGreater(q, b) ==
    IF XDen(q) > 0 THEN XNum(q) > b * XDen(q) ELSE XNum(q) < b * XDen(q)
XLess(q, b) ==
    IF XDen(q) > 0 THEN XNum(q) < b * XDen(q) ELSE XNum(q) > b * XDen(q)

\* x_price_range[0] <= calculated_x <= x_price_range[1]
InRange(q) == ~XLess(q, x_price_range[1]) /\ ~XGreater(q, x_price_range[2])

\* sorted(..., key=price) is stable: ties keep index order.
Before(a, b) ==
    \/ known_prices[a] < known_prices[b]
    \/ known_prices[a] = known_prices[b] /\ a < b

priced_items ==
    List([p \in 1..(total_products - 1) |->
            CHOOSE k \in 1..(total_products - 1) :
                Cardinality({j \in 1..(total_products - 1) : Before(j, k)}) = p - 1])

Reversed(s) == List([p \in 1..Len(s) |-> s[Len(s) + 1 - p]])

is_valid_swap(qtys, from_idx, to_idx) ==
    /\ ~(/\ from_idx \in DOMAIN rules
         /\ \/ rules[from_idx].type = "=="
            \/ /\ rules[from_idx].type = ">="
               /\ qtys[from_idx] - 1 < rules[from_idx].value)
    /\ ~(/\ to_idx \in DOMAIN rules
         /\ \/ rules[to_idx].type = "=="
            \/ /\ rules[to_idx].type = "<="
               /\ qtys[to_idx] + 1 > rules[to_idx].value)

\* The pairs <<a, b>> of positions the nested loops would accept.
SwapPairs(q, donors, recipients) ==
    {pr \in (DOMAIN donors) \X (DOMAIN recipients) :
        /\ q[donors[pr[1]]] > 0
        /\ donors[pr[1]] # recipients[pr[2]]
        /\ is_valid_swap(q, donors[pr[1]], recipients[pr[2]])}

\* The first pair in loop order: outer loop over donors, inner over recipients.
FirstPair(S) ==
    CHOOSE pr \in S : \A o \in S :
        pr[1] < o[1] \/ (pr[1] = o[1] /\ pr[2] <= o[2])

\* Scan orders of lines 145-158: <<donor order, recipient order>>.
ScanOrders(q) ==
    LET asc == priced_items
    IN  IF XGreater(q, x_price_range[2])
        THEN <<asc, Reversed(asc)>>
        ELSE <<Reversed(asc), asc>>

\* <<from_idx, to_idx>> of the swap the scan applies, <<>> if it finds none.
FindSwap(q) ==
    LET orders == ScanOrders(q)
        pairs == SwapPairs(q, orders[1], orders[2])
        first == FirstPair(pairs)
    IN  IF pairs = {} THEN <<>>
        ELSE <<orders[1][first[1]], orders[2][first[2]]>>

ApplySwap_NoDecrement(q, from_idx, to_idx) ==
    [q EXCEPT ![to_idx] = q[to_idx] + 1]

\* quantities[from] -= 1; quantities[to] += 1
ApplySwap(q, from_idx, to_idx) ==
    [q EXCEPT ![from_idx] = q[from_idx] - 1, ![to_idx] = q[to_idx] + 1]

----------------------------------------------------------------------------
(* The explored requests *)

\* The request the solver is called with.
Request(n, q, total, tax, prices, range, cs) ==
    /\ total_products = n
    /\ total_quantity = q
    /\ total_price_with_tax = total
    /\ tax_rate = tax
    /\ known_prices = prices
    /\ x_price_range = range
    /\ constraints = cs

\* Raw bounds on category k for a total of q: every type, values 0..q+1.
BoundsOn(k, q) == [idx : {k}, type : Types, value : 0..(q + 1)]

Sizes == {nq \in (2..MaxProducts) \X (2..MaxQuantity) : nq[2] >= nq[1]}

PriceRanges == {r \in (1..MaxPrice) \X (1..MaxPrice) : r[1] <= r[2]}

\* Budgets with tax (25%): 4 and 8 before tax.
Budgets == {5, 10}

\* A raw bound was chosen for the category.
Present(c) == c.type # "none"

\* Allocation slice, part 1: at most one raw bound per known category, listed
\* in category order.  All known prices are 4 and the budget is
\* 4 * total_quantity before tax, so the implied price is 4 and in range.
InitOnePerCategory ==
    \E nq \in Sizes :
        \E f \in [1..(nq[1] - 1) ->
                    [type : Types, value : 0..(nq[2] + 1)]
                    \cup {[type |-> "none", value |-> 0]}] :
            Request(nq[1], nq[2], 5 * nq[2], 25, [k \in 1..(nq[1] - 1) |-> 4],
                    <<4, 4>>,
                    SelectSeq([k \in 1..(nq[1] - 1) |->
                                  [idx |-> k, type |-> f[k].type,
                                   value |-> f[k].value]],
                              Present))

\* Allocation slice, part 2: up to MaxConstraints raw bounds on one category.
InitSameCategory ==
    \E nq \in Sizes : \E k \in 1..(nq[1] - 1) : \E len \in 0..MaxConstraints :
        \E cs \in [1..len -> BoundsOn(k, nq[2])] :
            Request(nq[1], nq[2], 5 * nq[2], 25, [j \in 1..(nq[1] - 1) |-> 4],
                    <<4, 4>>, cs)

\* Pricing slice: every price list, target range and budget, no bounds.
InitPricing ==
    \E nq \in Sizes : \E total \in Budgets :
        \E prices \in [1..(nq[1] - 1) -> 1..MaxPrice] : \E range \in PriceRanges :
            Request(nq[1], nq[2], total, 25, prices, range, <<>>)

\* Bounded pricing slice: one raw bound, known prices 1, 2, ..., the target
\* range spanning them (what the UI passes: min and max of the known prices).
InitBoundedPricing ==
    \E nq \in Sizes : \E total \in Budgets : \E k \in 1..(nq[1] - 1) :
        \E c \in BoundsOn(k, nq[2]) :
            Request(nq[1], nq[2], total, 25, [j \in 1..(nq[1] - 1) |-> j],
                    <<1, nq[1] - 1>>, <<c>>)

Bound(k, t, v) == [idx |-> k, type |-> t, value |-> v]

\* The documented examples: the UI's default form values (lines 177-182,
\* range as at line 221) in hundredths of a currency unit; the conflicting
\* pair "== 5" / ">= 6" on one category in both orders; ">= 6" on two
\* categories of a total of 10.
InitDocumented ==
    \/ Request(8, 92, 3159516, 13,
               <<21800, 26800, 25800, 30800, 22800, 48000, 31800>>,
               <<21800, 48000>>, <<>>)
    \/ \E cs \in { <<Bound(1, "==", 5), Bound(1, ">=", 6)>>,
                   <<Bound(1, ">=", 6), Bound(1, "==", 5)>>,
                   <<Bound(1, ">=", 6), Bound(2, ">=", 6)>> } :
          Request(3, 10, 50, 25, <<4, 4>>, <<4, 4>>, cs)

\* A run that spends all 200 iterations on swaps in one direction.
InitLongRun == Request(3, 602, 1503, 25, <<1, 2>>, <<1, 2>>, <<>>)

\* Requests validate_inputs turns away.
InitInvalid ==
    \/ Request(3, 2, 5, 25, <<1, 2>>, <<1, 2>>, <<>>)
    \/ Request(3, 3, 5, 0, <<1, 2>>, <<1, 2>>, <<>>)
    \/ Request(3, 3, 5, 100, <<1, 2>>, <<1, 2>>, <<>>)
    \/ Request(3, 3, 0, 25, <<1, 2>>, <<1, 2>>, <<>>)
    \/ Request(1, 3, 5, 25, <<>>, <<1, 2>>, <<>>)
    \/ Request(3, 3, 5, 25, <<1, 0 - 2>>, <<1, 2>>, <<>>)
    \/ Request(3, 3, 5, 25, <<1, 2>>, <<1, 2>>, <<Bound(3, "==", 1)>>)
    \/ Request(3, 3, 5, 25, <<1, 2>>, <<1, 2>>, <<Bound(0, "<=", 1)>>)

----------------------------------------------------------------------------
(* The program *)

NoRules == [k \in {} |-> 0]

Init ==
    /\ \/ InitOnePerCategory
       \/ InitSameCategory
       \/ InitPricing
       \/ InitBoundedPricing
       \/ InitDocumented
       \/ InitLongRun
       \/ InitInvalid
    /\ pc = "validate"
    /\ rules = NoRules
    /\ quantities = <<>>
    /\ iter = 0
    /\ result = [status |-> "none"]
    /\ visited = {}

\* The button handler: validate_inputs, then the solver only if it found nothing.
ValidateInputs ==
    /\ pc = "validate"
    /\ pc' = IF validation_errors THEN "rejected" ELSE "check"
    /\ UNCHANGED <<inputs, rules, quantities, iter, result, visited>>

\* Lines 69-93.
CheckRules ==
    /\ pc = "check"
    /\ LET rls == IF Len(constraints) > 0 THEN RulesOf(constraints) ELSE NoRules
       IN  /\ rules' = rls
           /\ IF HasConflict(rls, constraints)
              THEN /\ result' = [status |-> "error", message |-> "conflict"]
                   /\ pc' = "done"
              ELSE IF min_sum(rls) > total_quantity
              THEN /\ result' = [status |-> "error", message |-> "min_sum"]
                   /\ pc' = "done"
              ELSE /\ result' = result
                   /\ pc' = "allocate"
    /\ UNCHANGED <<inputs, quantities, iter, visited>>

\* Lines 96-123.
InitialAllocation ==
    /\ pc = "allocate"
    /\ quantities' = InitialQuantities
    /\ IF UnknownIsZero(quantities')
       THEN /\ result' = [status |-> "error", message |-> "zero_unknown"]
            /\ pc' = "done"
       ELSE /\ result' = result
            /\ pc' = "balance"
    /\ UNCHANGED <<inputs, rules, iter, visited>>

Report(st, msg, q) ==
    IF XDen(q) = 0
    THEN [status |-> "fault", message |-> "ZeroDivisionError"]
    ELSE [status |-> st, message |-> msg, counts |-> q,
          estimated_price_x |-> <<XNum(q), XDen(q)>>]

\* Lines 129-133: the price is evaluated and is in range.
BalanceReturn ==
    /\ pc = "balance"
    /\ XDen(quantities) = 0 \/ InRange(quantities)
    /\ result' = Report("success", "optimal", quantities)
    /\ visited' = visited \cup {known_items_price(quantities)}
    /\ pc' = "done"
    /\ UNCHANGED <<inputs, rules, quantities, iter>>

\* Lines 129-158: out of range, and the scan finds a pair.
BalanceSwap ==
    /\ pc = "balance"
    /\ XDen(quantities) # 0
    /\ ~InRange(quantities)
    /\ LET swap == FindSwap(quantities)
       IN  /\ swap # <<>>
           /\ quantities' = ApplySwap(quantities, swap[1], swap[2])
    /\ visited' = visited \cup {known_items_price(quantities)}
    /\ iter' = iter + 1
    /\ pc' = IF iter + 1 = MaxIterations THEN "final" ELSE "balance"
    /\ UNCHANGED <<inputs, rules, result>>

\* Lines 129-159: out of range, no pair: break.
BalanceStuck ==
    /\ pc = "balance"
    /\ XDen(quantities) # 0
    /\ ~InRange(quantities)
    /\ FindSwap(quantities) = <<>>
    /\ visited' = visited \cup {known_items_price(quantities)}
    /\ pc' = "final"
    /\ UNCHANGED <<inputs, rules, quantities, iter, result>>

\* Lines 161-162.
FinalWarning ==
    /\ pc = "final"
    /\ result' = Report("warning", "out_of_range", quantities)
    /\ pc' = "done"
    /\ UNCHANGED <<inputs, rules, quantities, iter, visited>>

Next ==
    \/ ValidateInputs
    \/ CheckRules
    \/ InitialAllocation
    \/ BalanceReturn
    \/ BalanceSwap
    \/ BalanceStuck
    \/ FinalWarning

Spec == Init /\ [][Next]_vars

----------------------------------------------------------------------------
(* Properties *)

\* The solver returned a Solved or Warning result.
Returned == pc = "done" /\ result.status \in {"success", "warning"}

\* The initial allocation completed and a quantity vector exists.
Allocated == pc \in {"balance", "final"} \/ Returned

\* C1: in every Solved or Warning result each category with a bound has a
\* quantity inside it: "==" v gives v, ">=" v at least v, "<=" v at most v.
C1_BoundRespect ==
    Returned =>
        \A j \in DOMAIN constraints :
            LET c == constraints[j]
                got == result.counts[c.idx]
            IN  /\ c.type = "==" => got = c.value
                /\ c.type = ">=" => got >= c.value
                /\ c.type = "<=" => got <= c.value

\* C2: the quantity vector sums to total_quantity once the initial allocation
\* is complete, after every swap, and in every Solved or Warning result.
C2_SumInvariant ==
    /\ pc \in {"balance", "final"} => Sum(quantities) = total_quantity
    /\ Returned => Sum(result.counts) = total_quantity

\* A Warning result of a bounded request, returned after swaps.
C2_Witness ==
    /\ Returned
    /\ result.status = "warning"
    /\ iter > 0
    /\ Len(constraints) > 0
    /\ Sum(result.counts) = total_quantity

\* Values of the raw bounds of the given types on category k.
RawValues(k, types) ==
    {constraints[j].value : j \in {h \in DOMAIN constraints :
        constraints[h].idx = k /\ constraints[h].type \in types}}

\* The raw bounds of some category merge into an empty window: its largest
\* ">="/"==" value exceeds its smallest "<="/"==" value.
EmptyWindow ==
    \E k \in 1..total_products :
        /\ RawValues(k, {">=", "=="}) # {}
        /\ RawValues(k, {"<=", "=="}) # {}
        /\ SetMax(RawValues(k, {">=", "=="})) > SetMin(RawValues(k, {"<=", "=="}))

\* C3: a request whose raw bounds on one category merge into an empty window
\* is answered with the error status and no quantities, in whatever order the
\* bounds are listed.
C3_ConflictDetected ==
    (EmptyWindow /\ pc \notin {"validate", "rejected", "check"}) =>
        /\ pc = "done"
        /\ result.status = "error"
        /\ "counts" \notin DOMAIN result

\* The minimum of category k's window after merging the first j raw bounds in
\* list order: ">=" raises it, "==" sets it.
RECURSIVE WindowMin(_, _)
WindowMin(k, j) ==
    IF j = 0 THEN 0
    ELSE LET c == constraints[j]
             m == WindowMin(k, j - 1)
         IN  IF c.idx # k THEN m
             ELSE IF c.type = "==" THEN c.value
             ELSE IF c.type = ">=" /\ c.value > m THEN c.value
             ELSE m

\* Sum of the window minimums over the categories with a ">=" or "==" bound.
RequiredMinimum ==
    SumOver([k \in 1..total_products |-> WindowMin(k, Len(constraints))],
            {k \in 1..total_products : RawValues(k, {">=", "=="}) # {}})

\* C4: when the required minimums add up to more than total_quantity the
\* solver returns the error status before allocating, with no quantities and
\* no price; when they do not, the minimum-sum check rejects nothing.
C4_InfeasibleSum ==
    pc \notin {"validate", "rejected", "check"} =>
        /\ RequiredMinimum > total_quantity =>
              /\ pc = "done"
              /\ result.status = "error"
              /\ DOMAIN result = {"status", "message"}
              /\ quantities = <<>>
        /\ RequiredMinimum <= total_quantity =>
              ~(result.status = "error" /\ result.message = "min_sum")

\* C5: a Warning result carries quantities whose implied price is outside
\* [low, high].
C5_WarningOutOfRange ==
    (pc = "done" /\ result.status = "warning") => ~InRange(result.counts)

\* Distance of the implied price from [low, high] for a known-items price K,
\* times |XDen| (the unknown quantity is the same throughout a run).
RangeDistance(K) ==
    LET den == XDen(quantities)
        num == total_price_with_tax * 100 - K * (100 + tax_rate)
        sgn == IF den > 0 THEN 1 ELSE 0 - 1
        above == sgn * (num - x_price_range[2] * den)
        below == sgn * (x_price_range[1] * den - num)
    IN  IF above > 0 THEN above ELSE IF below > 0 THEN below ELSE 0

\* C6: the price reported with a Warning is no farther from [low, high] than
\* the price of any allocation evaluated earlier in the run.
C6_BestOnWarning ==
    (pc = "done" /\ result.status = "warning") =>
        \A K \in visited :
            RangeDistance(known_items_price(result.counts)) <= RangeDistance(K)

\* C7: an allocation with 0 units for the unknown category is answered with
\* the error status before any price is computed; otherwise the unknown
\* quantity is non-zero whenever a price is evaluated, because it stays what
\* the initial allocation made it; no run ends in a ZeroDivisionError.
C7_NoDivisionByZero ==
    /\ result.status # "fault"
    /\ (quantities # <<>> /\ quantities[Last] = 0) =>
          /\ pc = "done"
          /\ result = [status |-> "error", message |-> "zero_unknown"]
          /\ visited = {}
    /\ pc \in {"balance", "final"} =>
          /\ quantities[Last] # 0
          /\ quantities[Last] = InitialQuantities[Last]

\* The zero-quantity error was returned.
C7_Witness ==
    /\ pc = "done"
    /\ result.status = "error"
    /\ result.message = "zero_unknown"
    /\ quantities[Last] = 0

\* C8: without bounds the allocation that enters the balancer gives
\* (total_quantity div total_products) + 1 to the first
\* (total_quantity mod total_products) categories and the quotient to the
\* others; 92 over 8 gives 12,12,12,12,11,11,11,11.
C8_NoBoundsBaseline ==
    (Len(constraints) = 0 /\ pc = "balance" /\ iter = 0) =>
        /\ \A k \in 1..total_products :
              quantities[k] = (total_quantity \div total_products)
                  + (IF k <= total_quantity % total_products THEN 1 ELSE 0)
        /\ (total_quantity = 92 /\ total_products = 8) =>
              quantities = <<12, 12, 12, 12, 11, 11, 11, 11>>

\* 92 units over 8 categories enter the balancer.
C8_Witness ==
    /\ pc = "balance"
    /\ iter = 0
    /\ Len(constraints) = 0
    /\ total_quantity = 92
    /\ total_products = 8
    /\ quantities = <<12, 12, 12, 12, 11, 11, 11, 11>>

\* C9: a swap made while the price is above high does not lower the
\* known-items price, and one made while it is below low does not raise it.
C9_SwapDirection ==
    [][(pc = "balance" /\ quantities' # quantities) =>
          /\ XGreater(quantities, x_price_range[2]) =>
                known_items_price(quantities') >= known_items_price(quantities)
          /\ ~XGreater(quantities, x_price_range[2]) =>
                known_items_price(quantities') <= known_items_price(quantities)]_vars

\* C10: every quantity is >= 0 once the initial allocation is complete,
\* after every swap, and in every Solved or Warning result.
C10_NonNegative ==
    Allocated => \A k \in 1..total_products : quantities[k] >= 0

====
